---- MODULE Spec2Model ----
(***************************************************************************)
(* A model of joao-alho/byo-database: the B+tree page codec, the node      *)
(* splitter, the copy-on-write insert (treeInsert) and the whole-file      *)
(* writers (SaveData2).                                                    *)
(*                                                                         *)
(* A byte slice is modelled by its run-length form [b, n]: the byte b      *)
(* repeated n times (n = 0 is the empty slice).  A node buffer is a zeroed *)
(* byte array of a given length; the model records it as the fields that   *)
(* were written into it, keyed by their byte position, so that every       *)
(* position the code computes (in uint16 arithmetic) is computed here too. *)
(***************************************************************************)
EXTENDS Integers, Sequences, FiniteSets, TLC

(***************************************************************************)
(* Program constants.                                                      *)
(***************************************************************************)
HEADER == 4
BTREE_PAGE_SIZE == 4096
BTREE_MAX_KEY_SIZE == 1000
BTREE_MAX_VAL_SIZE == 3000
BNODE_NODE == 1
BNODE_LEAF == 2

\* uint16 arithmetic wraps
U16(x) == (x + 65536 * 4) % 65536

Min(a, b) == IF a < b THEN a ELSE b

(***************************************************************************)
(* Byte slices.                                                            *)
(***************************************************************************)
Empty == [b |-> 0, n |-> 0]
Bytes(b, n) == IF n = 0 THEN Empty ELSE [b |-> b, n |-> n]
length(s) == s.n

Sign(x) == IF x < 0 THEN -1 ELSE IF x > 0 THEN 1 ELSE 0

\* bytes.Compare: lexicographic order of the two byte strings
Compare(x, y) ==
    IF x.n = 0 \/ y.n = 0 THEN Sign(x.n - y.n)
    ELSE IF x.b # y.b THEN Sign(x.b - y.b)
    ELSE Sign(x.n - y.n)

\* bytes.Equal
Equal(x, y) == Compare(x, y) = 0

(***************************************************************************)
(* Buffers.  id is the identity of the backing array (two BNode values     *)
(* with the same id share their bytes), len its length, mem the fields     *)
(* written so far (every other byte is zero), st what became of the        *)
(* process while it worked on the buffer: "ok", "fatal" (log.Fatal: the    *)
(* process exits) or "panic" (an index out of range).                      *)
(***************************************************************************)
make(id, n) == [id |-> id, len |-> n, mem |-> << >>, st |-> "ok"]

Put(mem, pos, cell) ==
    [p \in (DOMAIN mem) \cup {pos} |-> IF p = pos THEN cell ELSE mem[p]]

Fail(node, how) == IF node.st = "ok" THEN [node EXCEPT !.st = how] ELSE node

\* binary.LittleEndian.PutUint16(node[pos:], v) and PutUint64
PutUint(node, pos, width, v) ==
    IF node.st # "ok" THEN node
    ELSE IF pos + width > node.len THEN Fail(node, "panic")
    ELSE [node EXCEPT !.mem = Put(@, pos, [w |-> width, v |-> v])]

\* copy(node[pos:], src): copies min(len(src), len(node)-pos) bytes
copy(node, pos, src) ==
    IF node.st # "ok" THEN node
    ELSE IF pos > node.len THEN Fail(node, "panic")
    ELSE LET m == Min(src.n, node.len - pos)
         IN  IF m = 0 THEN node
             ELSE [node EXCEPT !.mem = Put(@, pos, [w |-> 0, b |-> src.b, n |-> m])]

\* binary.LittleEndian.Uint16(node[pos:]) and Uint64: unwritten bytes are zero
Uint(node, pos, width) ==
    IF pos \in DOMAIN node.mem
    THEN CASE node.mem[pos].w = width -> node.mem[pos].v
    ELSE 0

\* node[pos:][:n]
Slice(node, pos, n) ==
    IF n = 0 THEN Empty
    ELSE IF pos \in DOMAIN node.mem
    THEN CASE node.mem[pos].w = 0 /\ node.mem[pos].n >= n -> Bytes(node.mem[pos].b, n)
    ELSE Bytes(0, n)

(***************************************************************************)
(* The page codec.                                                         *)
(***************************************************************************)
btype(node) == Uint(node, 0, 2)

nkeys(node) == Uint(node, 2, 2)

setHeader(node, t, n) == PutUint(PutUint(node, 0, 2, t), 2, 2, n)

\* the guards of the accessors: where they are false the accessor is fatal
getPtrOK(node, idx) == idx < nkeys(node)

getPtr(node, idx) == Uint(node, U16(HEADER + 8 * idx), 8)

setPtr(node, idx, val) ==
    IF node.st # "ok" THEN node
    ELSE IF ~(idx < nkeys(node)) THEN Fail(node, "fatal")
    ELSE PutUint(node, U16(HEADER + 8 * idx), 8, val)

offsetPosOK(node, idx) == idx >= 1 /\ idx <= nkeys(node)

offsetPos(node, idx) == U16(HEADER + 8 * nkeys(node) + 2 * (idx - 1))

getOffsetOK(node, idx) == idx = 0 \/ offsetPosOK(node, idx)

getOffset(node, idx) == IF idx = 0 THEN 0 ELSE Uint(node, offsetPos(node, idx), 2)

setOffset(node, idx, offset) ==
    IF node.st # "ok" THEN node
    ELSE IF ~offsetPosOK(node, idx) THEN Fail(node, "fatal")
    ELSE PutUint(node, offsetPos(node, idx), 2, offset)

kvPosOK(node, idx) == idx <= nkeys(node)

kvPos(node, idx) ==
    U16(HEADER + 8 * nkeys(node) + 2 * nkeys(node) + getOffset(node, idx))

getKeyOK(node, idx) == idx < nkeys(node)

getKey(node, idx) ==
    LET pos == kvPos(node, idx)
        klen == Uint(node, pos, 2)
    IN  Slice(node, U16(pos + 4), klen)

getVal(node, idx) ==
    LET pos == kvPos(node, idx)
        klen == Uint(node, pos, 2)
        vlen == Uint(node, U16(pos + 2), 2)
    IN  Slice(node, U16(pos + 4 + klen), vlen)

nbytes(node) == kvPos(node, nkeys(node))

\* the entries a node decodes to: (pointer, key, value) for every index
Entries(node) ==
    [i \in 1..nkeys(node) |->
        [ptr |-> getPtr(node, i - 1), key |-> getKey(node, i - 1),
         val |-> getVal(node, i - 1)]]

Keys(node) == [i \in 1..nkeys(node) |-> getKey(node, i - 1)]

(***************************************************************************)
(* nodeLookupLE: the linear scan; the result is a uint16.                  *)
(***************************************************************************)
RECURSIVE LookupFrom(_, _, _)
LookupFrom(node, key, i) ==
    IF ~(i < nkeys(node)) THEN U16(i - 1)
    ELSE LET cmp == Compare(getKey(node, i), key)
         IN  IF cmp = 0 THEN i
             ELSE IF cmp > 0 THEN U16(i - 1)
             ELSE LookupFrom(node, key, U16(i + 1))

nodeLookupLE(node, key) == LookupFrom(node, key, 0)

(***************************************************************************)
(* The builder.  An operator that writes to a buffer returns the buffer.   *)
(* Src(new, old) is the buffer a read of old sees while new is being       *)
(* written: new itself when the two are the same array.                    *)
(***************************************************************************)
Src(new, old) == IF old.id = new.id THEN new ELSE old

\* the offset of the next key
SetNextOffset(new, idx, key, val) ==
    setOffset(new, U16(idx + 1),
              U16(getOffset(new, idx) + 4 + U16(length(key) + length(val))))

\* the lengths, the key and the value, written at pos
WriteKV(new, pos, idx, key, val) ==
    SetNextOffset(
        copy(copy(PutUint(PutUint(new, pos, 2, U16(length(key))),
                          U16(pos + 2), 2, U16(length(val))),
                  U16(pos + 4), key),
             U16(pos + 4 + U16(length(key))), val),
        idx, key, val)

\* after setPtr (fatal unless idx < nkeys, so that kvPos's own check passes)
AppendAt(new, idx, key, val) == WriteKV(new, kvPos(new, idx), idx, key, val)

nodeAppendKV(new, idx, ptr, key, val) == AppendAt(setPtr(new, idx, ptr), idx, key, val)

RECURSIVE AppendFrom(_, _, _, _, _, _)
AppendFrom(new, old, dstNew, srcOld, n, i) ==
    IF ~(i < n) \/ new.st # "ok" THEN new
    ELSE LET dst == U16(dstNew + i)
             src == U16(srcOld + i)
             o == Src(new, old)
         IN  IF ~getPtrOK(o, src) THEN Fail(new, "fatal")
             ELSE AppendFrom(
                    nodeAppendKV(new, dst, getPtr(o, src), getKey(o, src), getVal(o, src)),
                    old, dstNew, srcOld, n, U16(i + 1))

nodeAppendRange(new, old, dstNew, srcOld, n) == AppendFrom(new, old, dstNew, srcOld, n, 0)

\* the entries of old from index src on, appended at dst
AppendRest(new, old, dst, src) ==
    nodeAppendRange(new, old, dst, src, U16(nkeys(Src(new, old)) - src))

leafInsert(new, old, idx, key, val) ==
    AppendRest(
        nodeAppendKV(
            nodeAppendRange(setHeader(new, BNODE_LEAF, U16(nkeys(old) + 1)), old, 0, 0, idx),
            idx, 0, key, val),
        old, U16(idx + 1), idx)

leafUpdate(new, old, idx, key, val) ==
    AppendRest(
        nodeAppendKV(
            nodeAppendRange(setHeader(new, BNODE_LEAF, nkeys(old)), old, 0, 0, idx),
            idx, 0, key, val),
        old, U16(idx + 1), U16(idx + 1))

(***************************************************************************)
(* The node splitter.                                                      *)
(***************************************************************************)
left_bytes(old, nleft) == U16(4 + 8 * nleft + 2 * nleft + getOffset(old, nleft))

right_bytes(old, nleft) == U16(nbytes(old) - left_bytes(old, nleft) + 4)

\* for left_bytes() > BTREE_PAGE_SIZE { nleft-- }
RECURSIVE FitLeft(_, _)
FitLeft(old, nleft) ==
    IF ~getOffsetOK(old, nleft) THEN [st |-> "fatal", nleft |-> nleft]
    ELSE IF left_bytes(old, nleft) > BTREE_PAGE_SIZE THEN FitLeft(old, U16(nleft - 1))
    ELSE [st |-> "ok", nleft |-> nleft]

\* for right_bytes() > BTREE_PAGE_SIZE { nleft++ }
RECURSIVE FitRight(_, _)
FitRight(old, nleft) ==
    IF ~getOffsetOK(old, nleft) THEN [st |-> "fatal", nleft |-> nleft]
    ELSE IF right_bytes(old, nleft) > BTREE_PAGE_SIZE THEN FitRight(old, U16(nleft + 1))
    ELSE [st |-> "ok", nleft |-> nleft]

Dead(left, right, how) == [st |-> how, left |-> left, right |-> right]

\* the check that ends nodeSplit2: the right half fits
Split2Check(l, r) ==
    IF l.st # "ok" THEN Dead(l, r, l.st)
    ELSE IF r.st # "ok" THEN Dead(l, r, r.st)
    ELSE IF ~(nbytes(r) <= BTREE_PAGE_SIZE) THEN Dead(l, r, "fatal")
    ELSE [st |-> "ok", left |-> l, right |-> r]

\* the new nodes: the left entries are copied, then the right ones (a copy
\* that dies ends the process: Split2Check looks at the left one first)
Split2Copy(left, right, old, nleft, nright) ==
    Split2Check(nodeAppendRange(setHeader(left, btype(old), nleft), old, 0, 0, nleft),
                nodeAppendRange(setHeader(right, btype(old), nright),
                                old, 0, nleft, nright))

\* b: nleft after the loop that fits the right part
Split2Right(left, right, old, b) ==
    IF b.st # "ok" \/ b.nleft > nkeys(old) THEN Dead(left, right, "fatal")
    ELSE Split2Copy(left, right, old, b.nleft, U16(nkeys(old) - b.nleft))

\* a: nleft after the loop that fits the left half
Split2Left(left, right, old, a) ==
    IF a.st # "ok" \/ a.nleft < 1 THEN Dead(left, right, "fatal")
    ELSE Split2Right(left, right, old, FitRight(old, a.nleft))

nodeSplit2(left, right, old) ==
    IF nkeys(old) < 2 THEN Dead(left, right, "fatal")
    ELSE Split2Left(left, right, old, FitLeft(old, nkeys(old) \div 2))

\* node[:BTREE_PAGE_SIZE]
Page(node) == [node EXCEPT !.len = BTREE_PAGE_SIZE]

NoSplit(how) == [st |-> how, n |-> 0, nodes |-> << >>]

\* t: the second nodeSplit2, of left into leftleft and middle
Split3Three(right, t) ==
    IF t.st # "ok" THEN NoSplit(t.st)
    ELSE IF ~(nbytes(t.left) <= BTREE_PAGE_SIZE) THEN NoSplit("fatal")
    ELSE [st |-> "ok", n |-> 3, nodes |-> <<t.left, t.right, right>>]

\* the first split taken as final: left is never split again
Split3TwoOnly(s) ==
    IF s.st # "ok" THEN NoSplit(s.st)
    ELSE [st |-> "ok", n |-> 2, nodes |-> <<Page(s.left), s.right>>]

\* s: the first nodeSplit2, of old into left and right
Split3Two(s) ==
    IF s.st # "ok" THEN NoSplit(s.st)
    ELSE IF nbytes(s.left) <= BTREE_PAGE_SIZE
    THEN [st |-> "ok", n |-> 2, nodes |-> <<Page(s.left), s.right>>]
    ELSE Split3Three(s.right,
                     nodeSplit2(make("leftleft", BTREE_PAGE_SIZE),
                                make("middle", BTREE_PAGE_SIZE), s.left))

nodeSplit3(old) ==
    IF nbytes(old) <= BTREE_PAGE_SIZE
    THEN [st |-> "ok", n |-> 1, nodes |-> <<Page(old)>>]
    ELSE Split3Two(nodeSplit2(make("left", 2 * BTREE_PAGE_SIZE),
                              make("right", 2 * BTREE_PAGE_SIZE), old))

(***************************************************************************)
(* Input nodes: a node holding the given entries, laid out by the code's   *)
(* own builder in a zeroed buffer of the given length.                     *)
(***************************************************************************)
RECURSIVE BuildFrom(_, _, _)
BuildFrom(node, es, i) ==
    IF i > Len(es) THEN node
    ELSE BuildFrom(nodeAppendKV(node, i - 1, es[i].ptr, es[i].key, es[i].val), es, i + 1)

MkNode(id, size, t, es) == BuildFrom(setHeader(make(id, size), t, Len(es)), es, 1)

(***************************************************************************)
(* The page store behind a BTree: tree.new and tree.del (tree.get is never *)
(* called by the code).  pages maps a page number to the node stored       *)
(* there, next is the page number the next tree.new returns, log lists the *)
(* callbacks called, in order.                                             *)
(***************************************************************************)
treeNew(tree, node) ==
    [id |-> tree.next,
     tree |-> [pages |-> Put(tree.pages, tree.next, node),
               next |-> tree.next + 1,
               log |-> Append(tree.log, [op |-> "new", id |-> tree.next])]]

treeDel(tree, ptr) == [tree EXCEPT !.log = Append(@, [op |-> "del", id |-> ptr])]

(***************************************************************************)
(* nodeReplaceKidN and treeInsert.  Both return the buffer they wrote and  *)
(* the page store; treeInsert also returns the caller's node buffer as the *)
(* call left it.                                                           *)
(***************************************************************************)
RECURSIVE KidsFrom(_, _, _, _, _)
KidsFrom(tree, new, idx, kids, i) ==
    IF i > Len(kids) \/ new.st # "ok" THEN [node |-> new, tree |-> tree]
    ELSE IF ~getKeyOK(kids[i], 0)
    THEN [node |-> Fail(new, "fatal"), tree |-> treeNew(tree, kids[i]).tree]
    ELSE KidsFrom(treeNew(tree, kids[i]).tree,
                  nodeAppendKV(new, U16(idx + (i - 1)), treeNew(tree, kids[i]).id,
                               getKey(kids[i], 0), Empty),
                  idx, kids, i + 1)

\* k: the node and the store after the kids were appended
ReplaceRest(k, old, idx, inc) ==
    [node |-> nodeAppendRange(k.node, old, U16(idx + inc), U16(idx + 1),
                              U16(nkeys(old) - (idx + 1))),
     tree |-> k.tree]

nodeReplaceKidN(tree, new, old, idx, kids) ==
    ReplaceRest(
        KidsFrom(tree,
                 nodeAppendRange(
                     setHeader(new, BNODE_NODE, U16(nkeys(old) + U16(Len(kids)) - 1)),
                     old, 0, 0, idx),
                 idx, kids, 1),
        old, idx, U16(Len(kids)))

Ret(st, new, input, tree) == [st |-> st, node |-> new, input |-> input, tree |-> tree]

\* w: the buffer a leaf call wrote; the call returns new
LeafRet(new, w, input, tree) ==
    IF w.id = new.id THEN Ret(w.st, w, input, tree) ELSE Ret(w.st, new, w, tree)

\* r: what nodeReplaceKidN made of new
KidRet(r, input) == Ret(r.node.st, r.node, input, r.tree)

\* s: the split of the kid's result
KidSplit(new, idx, kptr, knode, s) ==
    IF s.st # "ok" THEN Ret(s.st, new, knode.input, knode.tree)
    ELSE KidRet(nodeReplaceKidN(treeDel(knode.tree, kptr), new, knode.input, idx, s.nodes),
                knode.input)

\* knode: what the recursive call returned
KidDone(new, idx, kptr, knode) ==
    IF knode.st # "ok" THEN Ret(knode.st, new, knode.input, knode.tree)
    ELSE KidSplit(new, idx, kptr, knode, nodeSplit3(knode.node))

RECURSIVE treeInsert(_, _, _, _)

\* the body of treeInsert once new is allocated and idx looked up
InsertAt(tree, node, key, val, new, idx) ==
    CASE btype(node) = BNODE_LEAF ->
           IF ~getKeyOK(node, idx) THEN Ret("fatal", new, node, tree)
           ELSE IF Equal(key, getKey(node, idx))
           THEN LeafRet(new, leafUpdate(new, node, idx, key, val), node, tree)
           ELSE LeafRet(new, leafInsert(node, node, idx, key, val), node, tree)
      [] btype(node) = BNODE_NODE ->
           IF ~getPtrOK(node, idx) THEN Ret("fatal", new, node, tree)
           ELSE KidDone(new, idx, getPtr(node, idx), treeInsert(tree, node, key, val))
      [] OTHER -> Ret("panic", new, node, tree)

treeInsert(tree, node, key, val) ==
    InsertAt(tree, node, key, val, make("new", 2 * BTREE_PAGE_SIZE),
             nodeLookupLE(make("new", 2 * BTREE_PAGE_SIZE), key))

(***************************************************************************)
(* State.                                                                  *)
(*   The tree side: one caller working on a node.                          *)
(*     tphase  "idle" before a call, "done" after one that returned,       *)
(*             "dead" once the process has exited (log.Fatal) or panicked  *)
(*     start   the node the caller started with                            *)
(*     node    the node the next call is given                             *)
(*     tree    the page store                                              *)
(*     call    the arguments of the last call                              *)
(*     out     what the last call returned                                 *)
(*     hist    the (key, value) pairs inserted so far, in order            *)
(*   The file side: SaveData2 callers on one directory.                    *)
(*     pc      where each caller is in SaveData2                           *)
(*     tmp     the number rand.Int() gave the caller (its temp file name)  *)
(*     fd      the inode the caller's fp refers to (0: none)               *)
(*     wpos    how many chunks of its data fp.Write has written            *)
(*     err     the caller's local variable err: "nil", or the step that    *)
(*             failed ("exist" is an open that found the file existing)    *)
(*     ret     what SaveData2 returned ("" while it runs)                  *)
(*     dir     the directory as the processes see it: name -> inode        *)
(*     ddir    the directory as it is on stable storage                    *)
(*     pending the directory operations not yet on stable storage          *)
(*     ino     for every inode its contents in the page cache and on       *)
(*             stable storage, chunk by chunk (0: never written)           *)
(*     crashed whether the machine has crashed                             *)
(***************************************************************************)
VARIABLES tphase, start, node, tree, call, out, hist,
          pc, tmp, fd, wpos, err, ret, dir, ddir, pending, ino, crashed

tvars == <<tphase, start, node, tree, call, out, hist>>
fvars == <<pc, tmp, fd, wpos, err, ret, dir, ddir, pending, ino, crashed>>
vars == <<tphase, start, node, tree, call, out, hist,
          pc, tmp, fd, wpos, err, ret, dir, ddir, pending, ino, crashed>>

(***************************************************************************)
(* Bounds of the model.                                                    *)
(***************************************************************************)
\* keys of the lookup and insert inputs are the one-byte strings 1..MaxKeyByte
MaxKeyByte == 4
\* values inserted are the one-byte strings 1..MaxValByte
MaxValByte == 2
\* calls of treeInsert in a row
MaxInserts == 3
\* entries of a node handed to nodeSplit3
MaxSplitKeys == 5
\* numbers rand.Int() can give (temp file names)
MaxTmp == 2
\* chunks a blob is written in
NChunks == 2

(***************************************************************************)
(* Inputs of the tree side.                                                *)
(***************************************************************************)
RECURSIVE SortedSeq(_)
SortedSeq(S) ==
    IF S = {} THEN << >>
    ELSE LET m == CHOOSE x \in S : \A y \in S : x <= y
         IN  <<m>> \o SortedSeq(S \ {m})

KeyBytes == 1..MaxKeyByte

InsKeys == {Bytes(b, 1) : b \in KeyBytes}

InsVals == {Bytes(b, 1) : b \in 1..MaxValByte}

LeafEntries(S) ==
    LET q == SortedSeq(S)
    IN  [i \in 1..Len(q) |-> [ptr |-> 0, key |-> Bytes(q[i], 1), val |-> Bytes(1, 1)]]

\* a stored leaf page with the keys S
LeafOf(id, S) == MkNode(id, BTREE_PAGE_SIZE, BNODE_LEAF, LeafEntries(S))

EmptyLeaf == LeafOf("node", {})

EmptyStore == [pages |-> << >>, next |-> 1, log |-> << >>]

\* an internal node over two stored leaves: the keys S, the first j on page 1
RootOf(S, j) ==
    LET q == SortedSeq(S)
    IN  MkNode("node", BTREE_PAGE_SIZE, BNODE_NODE,
               <<[ptr |-> 1, key |-> Bytes(q[1], 1), val |-> Empty],
                 [ptr |-> 2, key |-> Bytes(q[j + 1], 1), val |-> Empty]>>)

StoreOf(S, j) ==
    LET q == SortedSeq(S)
    IN  [pages |-> Put(Put(<< >>, 1, LeafOf("page1", {q[i] : i \in 1..j})),
                       2, LeafOf("page2", {q[i] : i \in (j + 1)..Len(q)})),
         next |-> 3, log |-> << >>]

LeafInputs == {[node |-> LeafOf("node", S), tree |-> EmptyStore] : S \in SUBSET KeyBytes}

RootInputs ==
    {[node |-> RootOf(x[1], x[2]), tree |-> StoreOf(x[1], x[2])] :
        x \in {y \in (SUBSET KeyBytes) \X KeyBytes : y[2] < Cardinality(y[1])}}

SizeClasses ==
    {[k |-> 1, v |-> 64], [k |-> 1, v |-> 65], [k |-> 1000, v |-> 1000],
     [k |-> BTREE_MAX_KEY_SIZE, v |-> BTREE_MAX_VAL_SIZE]}

\* a node in a 2-page buffer whose i-th key is the byte i repeated
SizedNode(t, sizes) ==
    MkNode("node", 2 * BTREE_PAGE_SIZE, t,
           [i \in 1..Len(sizes) |->
               [ptr |-> IF t = BNODE_NODE THEN i ELSE 0,
                key |-> Bytes(i, sizes[i].k),
                val |-> IF t = BNODE_NODE THEN Empty ELSE Bytes(100 + i, sizes[i].v)]])

Oversized(n) == n.st = "ok" /\ nbytes(n) > BTREE_PAGE_SIZE /\ nbytes(n) <= 2 * BTREE_PAGE_SIZE

SplitInputs ==
    {n \in {SizedNode(x[1], x[2]) :
              x \in {BNODE_LEAF, BNODE_NODE}
                    \X UNION {[1..m -> SizeClasses] : m \in 2..MaxSplitKeys}} :
        Oversized(n)}

LookupKeys == {Empty} \cup {Bytes(b, n) : b \in 0..(MaxKeyByte + 1), n \in 1..2}

(***************************************************************************)
(* The tree side: a caller that looks a key up, splits a node, or inserts. *)
(***************************************************************************)
NoCall == [op |-> "none"]

TreeInit(inputs) ==
    /\ \E x \in inputs : node = x.node /\ tree = x.tree
    /\ start = node
    /\ tphase = "idle"
    /\ call = NoCall
    /\ out = NoCall
    /\ hist = << >>

Lookup(key) ==
    /\ tphase = "idle"
    /\ call' = [op |-> "lookup", key |-> key]
    /\ out' = [op |-> "lookup", idx |-> nodeLookupLE(node, key)]
    /\ tphase' = "done"
    /\ UNCHANGED <<start, node, tree, hist>>
    /\ UNCHANGED fvars

SplitDone(s) ==
    /\ out' = [op |-> "split", st |-> s.st, n |-> s.n, nodes |-> s.nodes]
    /\ tphase' = IF s.st = "ok" THEN "done" ELSE "dead"

Split ==
    /\ tphase = "idle"
    /\ call' = [op |-> "split"]
    /\ SplitDone(nodeSplit3(node))
    /\ UNCHANGED <<start, node, tree, hist>>
    /\ UNCHANGED fvars

\* r: what treeInsert returned, s: what nodeSplit3 made of it.  A result that
\* is one page is the node of the next call.
InsertSplit(r, s) ==
    /\ out' = [op |-> "insert", st |-> s.st, node |-> r.node,
               input |-> r.input, tree |-> r.tree, split |-> s.nodes]
    /\ tphase' = IF s.st # "ok" THEN "dead" ELSE IF s.n = 1 THEN "done" ELSE "split"
    /\ node' = IF s.st = "ok" /\ s.n = 1 THEN [s.nodes[1] EXCEPT !.id = "node"]
               ELSE r.input
    /\ tree' = r.tree

InsertDone(r) ==
    IF r.st # "ok" THEN InsertSplit(r, NoSplit(r.st)) ELSE InsertSplit(r, nodeSplit3(r.node))

\* one call of treeInsert, and nodeSplit3 of what it returns
Insert(key, val) ==
    /\ tphase \in {"idle", "done"}
    /\ Len(hist) < MaxInserts
    /\ call' = [op |-> "insert", node |-> node, tree |-> tree, key |-> key, val |-> val]
    /\ hist' = Append(hist, <<key, val>>)
    /\ InsertDone(treeInsert(tree, node, key, val))
    /\ UNCHANGED start
    /\ UNCHANGED fvars

(***************************************************************************)
(* The file side.  Names: TargetName is path, r in 1..MaxTmp is the temp   *)
(* file path.tmp.r.  Inode 1 is the file at path before any call, inode 2  *)
(* a temp file an earlier run left behind, NewIno(w) the file caller w     *)
(* creates.  A blob is NChunks chunks; caller w's chunks are Data(w).      *)
(***************************************************************************)
TargetName == 0

Names == {TargetName} \cup (1..MaxTmp)

Writers == 1..2

NewIno(w) == 2 + w

Inodes == 1..(2 + 2)

Data(w) == IF w = 1 THEN "a" ELSE "b"

Blob(w) == [c \in 1..NChunks |-> Data(w)]

OldBlob == [c \in 1..NChunks |-> "x"]

NoBlob == [c \in 1..NChunks |-> ""]

Running == {"start", "opened", "written", "synced", "defer"}

FileInit(callers, stales) ==
    /\ pc = [w \in Writers |-> IF w \in callers THEN "start" ELSE "absent"]
    /\ tmp = [w \in Writers |-> 0]
    /\ fd = [w \in Writers |-> 0]
    /\ wpos = [w \in Writers |-> 0]
    /\ err = [w \in Writers |-> "nil"]
    /\ ret = [w \in Writers |-> ""]
    /\ \E stale \in stales :
          dir = [n \in Names |-> IF n = TargetName THEN 1
                                 ELSE IF n = stale THEN 2 ELSE 0]
    /\ ddir = dir
    /\ pending = << >>
    /\ ino = [i \in Inodes |-> IF i = 1 THEN [cache |-> OldBlob, stable |-> OldBlob]
                               ELSE [cache |-> NoBlob, stable |-> NoBlob]]
    /\ crashed = FALSE

\* Open without O_EXCL: a file that exists is opened as it is
OpenNoExcl(w, r) ==
    /\ ~crashed /\ pc[w] = "start"
    /\ tmp' = [tmp EXCEPT ![w] = r]
    /\ IF dir[r] # 0
       THEN /\ fd' = [fd EXCEPT ![w] = dir[r]]
            /\ UNCHANGED <<dir, pending>>
       ELSE /\ dir' = [dir EXCEPT ![r] = NewIno(w)]
            /\ pending' = Append(pending, [op |-> "link", name |-> r, ino |-> NewIno(w)])
            /\ fd' = [fd EXCEPT ![w] = NewIno(w)]
    /\ pc' = [pc EXCEPT ![w] = "opened"]
    /\ UNCHANGED <<wpos, err, ret, ddir, ino, crashed>>
    /\ UNCHANGED tvars

\* tmp := path.tmp.<rand.Int()>; os.OpenFile(tmp, O_WRONLY|O_CREATE|O_EXCL)
Open(w, r) ==
    /\ ~crashed /\ pc[w] = "start"
    /\ tmp' = [tmp EXCEPT ![w] = r]
    /\ IF dir[r] # 0
       THEN /\ err' = [err EXCEPT ![w] = "exist"]
            /\ ret' = [ret EXCEPT ![w] = "exist"]
            /\ pc' = [pc EXCEPT ![w] = "done"]
            /\ UNCHANGED <<fd, dir, pending>>
       ELSE /\ dir' = [dir EXCEPT ![r] = NewIno(w)]
            /\ pending' = Append(pending, [op |-> "link", name |-> r, ino |-> NewIno(w)])
            /\ fd' = [fd EXCEPT ![w] = NewIno(w)]
            /\ pc' = [pc EXCEPT ![w] = "opened"]
            /\ UNCHANGED <<err, ret>>
    /\ UNCHANGED <<wpos, ddir, ino, crashed>>
    /\ UNCHANGED tvars

\* os.OpenFile fails for another reason than the file existing
OpenFail(w, r) ==
    /\ ~crashed /\ pc[w] = "start"
    /\ tmp' = [tmp EXCEPT ![w] = r]
    /\ err' = [err EXCEPT ![w] = "open"]
    /\ ret' = [ret EXCEPT ![w] = "open"]
    /\ pc' = [pc EXCEPT ![w] = "done"]
    /\ UNCHANGED <<fd, wpos, dir, ddir, pending, ino, crashed>>
    /\ UNCHANGED tvars

\* fp.Write(data), one chunk of it
Write(w) ==
    /\ ~crashed /\ pc[w] = "opened"
    /\ ino' = [ino EXCEPT ![fd[w]].cache[wpos[w] + 1] = Data(w)]
    /\ wpos' = [wpos EXCEPT ![w] = @ + 1]
    /\ pc' = [pc EXCEPT ![w] = IF wpos[w] + 1 = NChunks THEN "written" ELSE "opened"]
    /\ UNCHANGED <<tmp, fd, err, ret, dir, ddir, pending, crashed>>
    /\ UNCHANGED tvars

\* fp.Write returns an error before all of data is written
WriteFail(w) ==
    /\ ~crashed /\ pc[w] = "opened"
    /\ err' = [err EXCEPT ![w] = "write"]
    /\ ret' = [ret EXCEPT ![w] = "write"]
    /\ pc' = [pc EXCEPT ![w] = "defer"]
    /\ UNCHANGED <<tmp, fd, wpos, dir, ddir, pending, ino, crashed>>
    /\ UNCHANGED tvars

\* Sync that flushes nothing (the fsync left out)
SyncNoFlush(w) ==
    /\ ~crashed /\ pc[w] = "written"
    /\ pc' = [pc EXCEPT ![w] = "synced"]
    /\ UNCHANGED <<tmp, fd, wpos, err, ret, dir, ddir, pending, ino, crashed>>
    /\ UNCHANGED tvars

\* err = fp.Sync(): the file's contents reach stable storage
Sync(w) ==
    /\ ~crashed /\ pc[w] = "written"
    /\ ino' = [ino EXCEPT ![fd[w]].stable = ino[fd[w]].cache]
    /\ pc' = [pc EXCEPT ![w] = "synced"]
    /\ UNCHANGED <<tmp, fd, wpos, err, ret, dir, ddir, pending, crashed>>
    /\ UNCHANGED tvars

SyncFail(w) ==
    /\ ~crashed /\ pc[w] = "written"
    /\ err' = [err EXCEPT ![w] = "sync"]
    /\ ret' = [ret EXCEPT ![w] = "sync"]
    /\ pc' = [pc EXCEPT ![w] = "defer"]
    /\ UNCHANGED <<tmp, fd, wpos, dir, ddir, pending, ino, crashed>>
    /\ UNCHANGED tvars

\* return os.Rename(tmp, path): the result is returned, not assigned to err
Rename(w) ==
    /\ ~crashed /\ pc[w] = "synced"
    /\ IF dir[tmp[w]] # 0
       THEN /\ dir' = [dir EXCEPT ![TargetName] = dir[tmp[w]], ![tmp[w]] = 0]
            /\ pending' = Append(pending, [op |-> "rename", name |-> tmp[w],
                                           ino |-> dir[tmp[w]]])
            /\ ret' = [ret EXCEPT ![w] = "nil"]
       ELSE /\ ret' = [ret EXCEPT ![w] = "rename"]
            /\ UNCHANGED <<dir, pending>>
    /\ pc' = [pc EXCEPT ![w] = "defer"]
    /\ UNCHANGED <<tmp, fd, wpos, err, ddir, ino, crashed>>
    /\ UNCHANGED tvars

RenameFail(w) ==
    /\ ~crashed /\ pc[w] = "synced"
    /\ ret' = [ret EXCEPT ![w] = "rename"]
    /\ pc' = [pc EXCEPT ![w] = "defer"]
    /\ UNCHANGED <<tmp, fd, wpos, err, dir, ddir, pending, ino, crashed>>
    /\ UNCHANGED tvars

\* the deferred function without its os.Remove
DeferredKeep(w) ==
    /\ ~crashed /\ pc[w] = "defer"
    /\ fd' = [fd EXCEPT ![w] = 0]
    /\ pc' = [pc EXCEPT ![w] = "done"]
    /\ UNCHANGED <<tmp, wpos, err, ret, dir, ddir, pending, ino, crashed>>
    /\ UNCHANGED tvars

\* the deferred function: fp.Close(); if err != nil { os.Remove(tmp) }
Deferred(w) ==
    /\ ~crashed /\ pc[w] = "defer"
    /\ fd' = [fd EXCEPT ![w] = 0]
    /\ IF err[w] # "nil" /\ dir[tmp[w]] # 0
       THEN /\ dir' = [dir EXCEPT ![tmp[w]] = 0]
            /\ pending' = Append(pending, [op |-> "unlink", name |-> tmp[w],
                                           ino |-> dir[tmp[w]]])
       ELSE UNCHANGED <<dir, pending>>
    /\ pc' = [pc EXCEPT ![w] = "done"]
    /\ UNCHANGED <<tmp, wpos, err, ret, ddir, ino, crashed>>
    /\ UNCHANGED tvars

\* the kernel writes a cached chunk back on its own
Writeback(i, c) ==
    /\ ~crashed /\ ino[i].stable[c] # ino[i].cache[c]
    /\ ino' = [ino EXCEPT ![i].stable[c] = ino[i].cache[c]]
    /\ UNCHANGED <<pc, tmp, fd, wpos, err, ret, dir, ddir, pending, crashed>>
    /\ UNCHANGED tvars

\* the oldest pending directory operation reaches stable storage
Commit ==
    /\ ~crashed /\ pending # << >>
    /\ LET o == Head(pending)
       IN  ddir' = CASE o.op = "link" -> [ddir EXCEPT ![o.name] = o.ino]
                     [] o.op = "unlink" -> [ddir EXCEPT ![o.name] = 0]
                     [] o.op = "rename" -> [ddir EXCEPT ![TargetName] = o.ino,
                                                        ![o.name] = 0]
    /\ pending' = Tail(pending)
    /\ UNCHANGED <<pc, tmp, fd, wpos, err, ret, dir, ino, crashed>>
    /\ UNCHANGED tvars

\* the machine crashes: what is not on stable storage is lost, the callers die
Crash ==
    /\ ~crashed
    /\ crashed' = TRUE
    /\ dir' = ddir
    /\ pending' = << >>
    /\ ino' = [i \in Inodes |-> [cache |-> ino[i].stable, stable |-> ino[i].stable]]
    /\ pc' = [w \in Writers |-> IF pc[w] \in Running THEN "crashed" ELSE pc[w]]
    /\ fd' = [w \in Writers |-> 0]
    /\ UNCHANGED <<tmp, wpos, err, ret, ddir>>
    /\ UNCHANGED tvars

(***************************************************************************)
(* Specifications.                                                         *)
(***************************************************************************)
InitLookup == TreeInit(LeafInputs \cup RootInputs) /\ FileInit({}, {0})

InitSplit == TreeInit({[node |-> n, tree |-> EmptyStore] : n \in SplitInputs})
             /\ FileInit({}, {0})

InitInsert == TreeInit(LeafInputs \cup RootInputs) /\ FileInit({}, {0})

InitSave == TreeInit({[node |-> EmptyLeaf, tree |-> EmptyStore]})
            /\ FileInit({1}, 0..MaxTmp)

InitSave2 == TreeInit({[node |-> EmptyLeaf, tree |-> EmptyStore]})
             /\ FileInit(Writers, 0..MaxTmp)

NextLookup == \E key \in LookupKeys : Lookup(key)

NextSplit == Split

NextInsert == \E key \in InsKeys, val \in InsVals : Insert(key, val)

NextSave ==
    \/ \E w \in Writers, r \in 1..MaxTmp : Open(w, r)
    \/ \E w \in Writers, r \in 1..MaxTmp : OpenFail(w, r)
    \/ \E w \in Writers : Write(w)
    \/ \E w \in Writers : WriteFail(w)
    \/ \E w \in Writers : Sync(w)
    \/ \E w \in Writers : SyncFail(w)
    \/ \E w \in Writers : Rename(w)
    \/ \E w \in Writers : RenameFail(w)
    \/ \E w \in Writers : Deferred(w)
    \/ \E i \in Inodes, c \in 1..NChunks : Writeback(i, c)
    \/ Commit
    \/ Crash

\* nodeLookupLE on a sorted node
SpecLookup == InitLookup /\ [][NextLookup]_vars

\* nodeSplit3 on an oversized node
SpecSplit == InitSplit /\ [][NextSplit]_vars

\* treeInsert calls on a leaf or an internal node
SpecInsert == InitInsert /\ [][NextInsert]_vars

\* one SaveData2 call, with crashes
SpecSave == InitSave /\ [][NextSave]_vars

\* two concurrent SaveData2 calls on the same path
SpecSave2 == InitSave2 /\ [][NextSave]_vars

Spec == SpecSave

(***************************************************************************)
(* What the claims speak of.                                               *)
(***************************************************************************)
StrictAsc(keys) == \A i \in 1..(Len(keys) - 1) : Compare(keys[i], keys[i + 1]) < 0

RECURSIVE Concat(_, _)
\* the entries of nodes[i], nodes[i+1], ... in order
Concat(nodes, i) ==
    IF i > Len(nodes) THEN << >> ELSE Entries(nodes[i]) \o Concat(nodes, i + 1)

KeysOf(es) == [i \in 1..Len(es) |-> es[i].key]

KVOf(es) == [i \in 1..Len(es) |-> [key |-> es[i].key, val |-> es[i].val]]

\* the value the last insert of key gave it
LastVal(h, key) ==
    h[CHOOSE i \in 1..Len(h) :
        /\ h[i][1] = key
        /\ \A j \in (i + 1)..Len(h) : h[j][1] # key][2]

RECURSIVE SortedKeys(_)
SortedKeys(S) ==
    IF S = {} THEN << >>
    ELSE LET m == CHOOSE x \in S : \A y \in S : Compare(x, y) <= 0
         IN  <<m>> \o SortedKeys(S \ {m})

\* the map a history of inserts amounts to, in ascending key order
MapOf(h) ==
    LET q == SortedKeys({h[i][1] : i \in 1..Len(h)})
    IN  [i \in 1..Len(q) |-> [key |-> q[i], val |-> LastVal(h, q[i])]]

\* the greatest index i with key(i) <= key, 0 when there is none
FloorIndex(n, key) ==
    LET le == {i \in 0..(nkeys(n) - 1) : Compare(getKey(n, i), key) <= 0}
    IN  IF le = {} THEN 0 ELSE CHOOSE i \in le : \A j \in le : j <= i

Inserted == call.op = "insert"

TargetIno == dir[TargetName]

TargetBlob == ino[TargetIno].cache

Holding == {"opened", "written", "synced"}

(***************************************************************************)
(* C1.  From an empty leaf, after every treeInsert call (its result passed *)
(* through nodeSplit3) the call has returned and the keys of the resulting *)
(* node(s), read in order, are strictly ascending with no key twice.       *)
(***************************************************************************)
C1_SortedAfterInsert ==
    (Inserted /\ start = EmptyLeaf) =>
        /\ out.st = "ok"
        /\ StrictAsc(KeysOf(Concat(out.split, 1)))

(***************************************************************************)
(* C2.  From an empty leaf, the node the last treeInsert call returned     *)
(* holds exactly the map of the inserts so far: one entry per distinct     *)
(* key, with the value of its latest insert, in ascending key order (so a  *)
(* present key is overwritten, a new key adds one entry).                  *)
(***************************************************************************)
C2_LeafIsMap ==
    (Inserted /\ start = EmptyLeaf) =>
        /\ out.st = "ok"
        /\ KVOf(Entries(out.node)) = MapOf(hist)

(***************************************************************************)
(* C3, as claimed.  nodeSplit3 of a node with valid entries and            *)
(* PAGE_SIZE < nbytes <= 2*PAGE_SIZE passes every fatal check and returns  *)
(* 2 or 3 nodes, each non-empty and at most PAGE_SIZE bytes, whose entries *)
(* in order are the input's entries.                                       *)
(***************************************************************************)
C3_SplitFits ==
    (call.op = "split" /\ Oversized(node)) =>
        /\ out.st = "ok"
        /\ out.n \in {2, 3}
        /\ \A i \in 1..out.n :
              /\ nkeys(out.nodes[i]) > 0
              /\ nbytes(out.nodes[i]) <= BTREE_PAGE_SIZE
        /\ Concat(out.nodes, 1) = Entries(node)

\* n is a node that fits a page plus one entry: without one of its entries
\* (its pointer, offset, lengths, key and value) it is at most PAGE_SIZE bytes
OnePageAndOne(n) ==
    \E i \in 0..(nkeys(n) - 1) :
        nbytes(n) - (8 + 2 + 4 + length(getKey(n, i)) + length(getVal(n, i)))
            <= BTREE_PAGE_SIZE

(***************************************************************************)
(* C3, amended.  nodeSplit3 of a node with valid entries that is more than *)
(* PAGE_SIZE bytes and is a page-fitting node plus one entry passes every  *)
(* fatal check and returns 2 or 3 nodes, each non-empty and at most        *)
(* PAGE_SIZE bytes, whose entries in order are the input's entries.        *)
(***************************************************************************)
C3_SplitFitsOnePageAndOne ==
    (call.op = "split" /\ Oversized(node) /\ OnePageAndOne(node)) =>
        /\ out.st = "ok"
        /\ out.n \in {2, 3}
        /\ \A i \in 1..out.n :
              /\ nkeys(out.nodes[i]) > 0
              /\ nbytes(out.nodes[i]) <= BTREE_PAGE_SIZE
        /\ Concat(out.nodes, 1) = Entries(node)

\* a node of a page and one entry was split in three
C3_Witness ==
    call.op = "split" /\ Oversized(node) /\ OnePageAndOne(node) /\ out.n = 3

(***************************************************************************)
(* C4.  SaveData2 is crash-atomic: at every step of the call, and after a  *)
(* crash at any step, the target path reads as the old contents or as the  *)
(* whole new blob, and it reads as the new blob only when that file's      *)
(* whole contents are on stable storage.                                   *)
(***************************************************************************)
C4_CrashAtomic ==
    /\ TargetIno # 0
    /\ TargetBlob \in {OldBlob, Blob(1)}
    /\ TargetBlob = Blob(1) => ino[TargetIno].stable = Blob(1)

\* the machine crashed after the rename reached stable storage
C4_Witness == crashed /\ ret[1] = "nil" /\ TargetBlob = Blob(1)

(***************************************************************************)
(* C5.  When SaveData2 has returned after a failure before the rename      *)
(* (create, write or fsync), it returned that error, the target is the     *)
(* file it was, with its contents, and the temp file the call created is   *)
(* in the directory no more.  (Stated of the running machine: a crash      *)
(* after the return is not part of the claim.)                             *)
(***************************************************************************)
C5_FailBeforeRename ==
    \A w \in Writers :
        (pc[w] = "done" /\ err[w] # "nil" /\ ~crashed) =>
            /\ ret[w] = err[w]
            /\ TargetIno = 1
            /\ TargetBlob = OldBlob
            /\ \A n \in Names : dir[n] # NewIno(w)

\* the call returned after its fsync failed, with data written to the temp file
C5_Witness ==
    pc[1] = "done" /\ err[1] = "sync" /\ ~crashed /\ ino[NewIno(1)].cache = Blob(1)

(***************************************************************************)
(* C6.  treeInsert is copy-on-write: every call, on a leaf or an internal  *)
(* node, returns a freshly allocated buffer, and leaves the bytes of the   *)
(* node it was given and of every page already in the store as they were.  *)
(***************************************************************************)
C6_CopyOnWrite ==
    Inserted =>
        /\ out.st = "ok"
        /\ out.node.id # call.node.id
        /\ out.input.mem = call.node.mem
        /\ \A id \in DOMAIN call.tree.pages :
              /\ id \in DOMAIN out.tree.pages
              /\ out.tree.pages[id].mem = call.tree.pages[id].mem

(***************************************************************************)
(* C7.  Two concurrent SaveData2 calls on one path: two callers that are   *)
(* past their create never work under the same temp name nor on the same   *)
(* file; a caller whose create found the file existing has returned that   *)
(* error, no file contains data of a caller that did not create it, and a  *)
(* caller between create and rename still finds its temp file; the target  *)
(* always reads as its old contents or as the whole blob of one caller.    *)
(***************************************************************************)
C7_Concurrent ==
    /\ \A w1, w2 \in Writers :
          (w1 # w2 /\ pc[w1] \in Holding /\ pc[w2] \in Holding) =>
              /\ tmp[w1] # tmp[w2]
              /\ fd[w1] # fd[w2]
    /\ \A w \in Writers :
          /\ err[w] = "exist" => (pc[w] = "done" /\ ret[w] = "exist" /\ fd[w] = 0)
          /\ \A c \in 1..NChunks : ino[NewIno(w)].cache[c] \in {"", Data(w)}
          /\ pc[w] \in Holding => (fd[w] = NewIno(w) /\ dir[tmp[w]] = NewIno(w))
    /\ \A c \in 1..NChunks : ino[2].cache[c] = ""
    /\ TargetIno # 0
    /\ TargetBlob \in {OldBlob} \cup {Blob(w) : w \in Writers}

\* both picked the same name: one create failed while the other caller was
\* writing, and that caller's blob became the target
C7_Witness ==
    \E w1, w2 \in Writers :
        /\ w1 # w2 /\ tmp[w1] = tmp[w2]
        /\ ret[w1] = "exist"
        /\ ret[w2] = "nil" /\ TargetBlob = Blob(w2)

(***************************************************************************)
(* C8.  treeInsert on an internal node with n entries returns an internal  *)
(* node with n + splitCount - 1 entries: the entries before and after      *)
(* idx = the floor index of the key are the input's, the entry at idx is   *)
(* replaced by one entry per split node (1 to 3), each with the page       *)
(* number of its own tree.new call and the first key of the page stored    *)
(* there; the old child's page number is given to tree.del exactly once.   *)
(***************************************************************************)
C8_ReplaceKid ==
    (Inserted /\ btype(call.node) = BNODE_NODE) =>
        /\ out.st = "ok"
        /\ btype(out.node) = BNODE_NODE
        /\ LET E == Entries(call.node)
               R == Entries(out.node)
               idx == FloorIndex(call.node, call.key)
               log == out.tree.log
               news == {i \in 1..Len(log) : log[i].op = "new"}
               dels == {i \in 1..Len(log) : log[i].op = "del"}
           IN  \E cnt \in 1..3 :
                 /\ Len(R) = Len(E) + cnt - 1
                 /\ \A i \in 1..idx : R[i] = E[i]
                 /\ \A i \in (idx + 2)..Len(E) : R[i + cnt - 1] = E[i]
                 /\ Cardinality(news) = cnt
                 /\ \A j \in 1..cnt :
                       /\ Cardinality({i \in news : log[i].id = R[idx + j].ptr}) = 1
                       /\ R[idx + j].key = getKey(out.tree.pages[R[idx + j].ptr], 0)
                 /\ Cardinality({i \in dels : log[i].id = E[idx + 1].ptr}) = 1

(***************************************************************************)
(* C9.  On a node with strictly ascending keys nodeLookupLE returns the    *)
(* greatest index i with key(i) <= key, and 0 when the key is below every  *)
(* key of the node or the node is empty: never a wrapped-around uint16.    *)
(***************************************************************************)
C9_LookupFloor ==
    (call.op = "lookup" /\ StrictAsc(Keys(node))) =>
        out.idx = FloorIndex(node, call.key)

(***************************************************************************)
(* C10.  When SaveData2 has returned, whatever the outcome, no temp file   *)
(* the call created is left in the directory: after success it is the      *)
(* target, after an error (a failed rename included) it is removed and the *)
(* target is the file it was.                                              *)
(***************************************************************************)
C10_NoTempRemains ==
    \A w \in Writers :
        (pc[w] = "done" /\ ~crashed) =>
            /\ \A n \in 1..MaxTmp : dir[n] # NewIno(w)
            /\ ret[w] = "nil" => TargetIno = NewIno(w)
            /\ ret[w] # "nil" => (TargetIno = 1 /\ TargetBlob = OldBlob)

====
